---- MODULE Spec2Model ----
(***************************************************************************)
(* Model of scripts/nightly-level3-pipeline.py: the nightly run() of the   *)
(* AERA level 3 pipeline against the record store, the snapshot store and  *)
(* the audit log.                                                          *)
(*                                                                         *)
(* Decimal quantities (risk scores, averages, drift) are integers counted  *)
(* in units of 0.0001, the precision of the code's round(x, 4).            *)
(* A JSON value that may be null is a sequence: <<>> for null, <<v>> for v.*)
(* Identifiers are strings; NULL stands for JSON null / Python None and    *)
(* NAN for the float nan pandas puts in a group key that was null.         *)
(* The snapshot fields that come out of the fitted sklearn models          *)
(* (kmeans_cluster, dbscan_cluster, anomaly_count) and projection_14d are  *)
(* not represented.                                                        *)
(***************************************************************************)
EXTENDS Integers, Sequences, FiniteSets, TLC

VARIABLES
    fillna_downcasts,   \* build: does Series.fillna downcast object to bool
    float_ties,         \* build: how round(x, 4) has come out on exact ties
    profiles,           \* table vulnerability_profiles
    prev_store,         \* rows of region_snapshots dated today - 30 days
    region_snapshots,   \* rows of region_snapshots dated today
    model_audit_log,    \* table model_audit_log
    runs,               \* invocations of run() that passed the configuration check
    faults,             \* invocations a raising call has aborted so far
    pc,                 \* position of the current invocation in run()
    run_id,             \* run_id of the current invocation
    df,                 \* the data frame of the current invocation
    k,                  \* n_clusters handed to KMeans
    snapshot_rows,      \* snapshot_rows of the current invocation
    err,                \* str(exc) caught by the handler
    exit_code,          \* value returned by run()
    stderr,             \* message printed on stderr
    trace,              \* external calls attempted by the current invocation
    first_pass          \* region_snapshots as the first complete run left it

vars == <<fillna_downcasts, float_ties, profiles, prev_store, region_snapshots,
          model_audit_log, runs, faults, pc, run_id, df, k, snapshot_rows,
          err, exit_code, stderr, trace, first_pass>>

----------------------------------------------------------------------------
(* Bounds *)

MaxN == 2          \* largest population in the record store
MaxRuns == 2       \* configured invocations of run() in one behaviour
MaxFaults == 1     \* invocations a raising call aborts in one behaviour
MaxPop == 64       \* largest entity count handed to the k formula
MaxHousehold == 10 \* largest household size scored

----------------------------------------------------------------------------
(* JSON values *)

NULL == "<null>"
NAN == "<nan>"
UNKNOWN == "UNKNOWN"
None == <<>>
Some(v) == <<v>>
IsNone(x) == x = <<>>

\* Series.fillna(v) on one cell
fillna(x, v) == IF IsNone(x) THEN v ELSE x[1]

Max(a, b) == IF a >= b THEN a ELSE b
Min(a, b) == IF a <= b THEN a ELSE b

Abs(x) == IF x < 0 THEN -x ELSE x

\* num/den, den # 0, lies halfway between two multiples of 0.0001
IsTie(num, den) == 2 * ((IF den < 0 THEN -num ELSE num) % Abs(den)) = Abs(den)

\* round(x, 4) of the float x computed for num/den, den # 0, in units of
\* 0.0001: the nearest multiple when there is one. The decimal tie is not a
\* binary float, so x lies on one side of it and round returns that
\* neighbour: the upper one when up holds, the lower one otherwise.
PyRound(num, den, up) ==
    LET n == IF den < 0 THEN -num ELSE num
        d == Abs(den)
        q == n \div d
        r == n - q * d
    IN  IF 2 * r < d THEN q
        ELSE IF 2 * r > d THEN q + 1
        ELSE IF up THEN q + 1 ELSE q

\* the float expressions the code rounds: the mean of a group, and its drift
AvgKey(total, count) == <<"avg", total, count, 0>>
DriftKey(total, count, prev_avg) == <<"drift", total, count, prev_avg>>

\* the side a tie has come out on, for a set of ties already computed
TieUp(ties, key) == \E t \in ties : t.key = key /\ t.up

\* the same float expression gives the same float: ties computed before keep
\* their side, each new one comes out on either
Decisions(decided, keys) ==
    LET new == {key \in keys : \A t \in decided : t.key # key}
    IN  { decided \cup {[key |-> key, up |-> key \in U] : key \in new}
          : U \in SUBSET new }

RECURSIVE SumSeq(_)
SumSeq(s) == IF s = <<>> THEN 0 ELSE Head(s) + SumSeq(Tail(s))

SeqMax(s) == CHOOSE m \in {s[i] : i \in DOMAIN s} : \A i \in DOMAIN s : s[i] <= m
SeqMin(s) == CHOOSE m \in {s[i] : i \in DOMAIN s} : \A i \in DOMAIN s : s[i] >= m

----------------------------------------------------------------------------
(* calculate_risk *)

\* a column built by DataFrame.from_records has object dtype when a cell is None
ObjectDtype(col) == \E i \in DOMAIN col : IsNone(col[i])

\* (~col.fillna(True)).astype(int) for one cell: logical not on a bool
\* column, Python's integer ~ (~True = -2, ~False = -1) on an object column
InvertedAccess(x, col, downcasts) ==
    LET v == fillna(x, TRUE)
    IN  IF downcasts \/ ~ObjectDtype(col)
        THEN (IF v THEN 0 ELSE 1)
        ELSE (IF v THEN -2 ELSE -1)

AsInt(b) == IF b THEN 1 ELSE 0

household_component(r) ==
    Min(Max(fillna(r.household_size, 1), 1) * 4000, 32000)

RiskOf(r, access_col, downcasts) ==
    household_component(r)
    + AsInt(fillna(r.medication_dependency, FALSE)) * 18000
    + AsInt(fillna(r.insulin_dependency, FALSE)) * 22000
    + AsInt(fillna(r.oxygen_powered_device, FALSE)) * 25000
    + AsInt(fillna(r.mobility_limitation, FALSE)) * 15000
    + InvertedAccess(r.transportation_access, access_col, downcasts) * 12000
    + AsInt(fillna(r.financial_strain, FALSE)) * 14000

calculate_risk(frame, downcasts) ==
    LET access_col == [i \in DOMAIN frame |-> frame[i].transportation_access]
    IN  [i \in DOMAIN frame |-> RiskOf(frame[i], access_col, downcasts)]

----------------------------------------------------------------------------
(* number of clusters *)

\* int(np.sqrt(n))
ISqrt(n) == CHOOSE r \in 0..n : r * r <= n /\ (r + 1) * (r + 1) > n

\* round(sqrt(n)): the integer nearest to the square root
RoundSqrt(n) ==
    CHOOSE r \in 0..n : (2 * r - 1) * (2 * r - 1) <= 4 * n
                        /\ 4 * n < (2 * r + 1) * (2 * r + 1)

\* the cluster count with the square root rounded instead of truncated
KClustersRounded(n) == Max(2, Min(6, RoundSqrt(n)))

\* max(2, min(6, int(np.sqrt(len(df))) or 2))
KClusters(n) ==
    LET s == ISqrt(n)
    IN  Max(2, Min(6, IF s = 0 THEN 2 ELSE s))

\* KMeans.fit_predict raises ValueError when n_samples < n_clusters
KMeansFits(n, kk) == n >= kk

----------------------------------------------------------------------------
(* drift and snapshots *)

\* classify_drift
classify_drift(v) ==
    IF v > 2500 THEN "ACCELERATING"
    ELSE IF v > 1500 THEN "ESCALATING"
    ELSE "STABLE"

\* the dict comprehension of lines 220-222: float(avg or 0) under the key
\* (county_id, state_id); a later row with the same key replaces an earlier
RECURSIVE PrevLookup(_)
PrevLookup(rows) ==
    IF rows = <<>> THEN <<>>
    ELSE LET n == Len(rows)
             r == rows[n]
             rest == PrevLookup(SubSeq(rows, 1, n - 1))
             key == <<r.county_id, r.state_id>>
             entry == [key |-> key, avg |-> fillna(r.avg_risk_score, 0)]
         IN  IF \E i \in DOMAIN rest : rest[i].key = key
             THEN [i \in DOMAIN rest |-> IF rest[i].key = key THEN entry ELSE rest[i]]
             ELSE Append(rest, entry)

\* a lookup that matches on the county alone
LookupGetCountyOnly(lookup, key) ==
    IF \E i \in DOMAIN lookup : lookup[i].key[1] = key[1]
    THEN (CHOOSE e \in {lookup[i] : i \in DOMAIN lookup} : e.key[1] = key[1]).avg
    ELSE 0

\* prev_lookup.get(key, 0.0)
LookupGet(lookup, key) ==
    IF \E i \in DOMAIN lookup : lookup[i].key = key
    THEN (CHOOSE e \in {lookup[i] : i \in DOMAIN lookup} : e.key = key).avg
    ELSE 0

\* groupby(..., dropna=False): a null key comes back as nan
GroupKeyValue(x) == IF x = NULL THEN NAN ELSE x

GroupKeyOf(r) == <<GroupKeyValue(r.county_id), GroupKeyValue(r.state_id),
                   GroupKeyValue(r.organization_id)>>

GroupKeys(frame) == {GroupKeyOf(frame[i]) : i \in DOMAIN frame}

\* Python truthiness of a group key: only the empty string is falsy (nan is
\* truthy)
Falsy(x) == x = ""

\* row["county_id"] or "UNKNOWN"
OrUnknown(x) == IF Falsy(x) THEN UNKNOWN ELSE x

\* drift = 0.0 if prev_avg == 0 else round((avg_risk - prev_avg) / prev_avg, 4)
\* with avg_risk = total / count
Drift(total, count, prev_avg, ties) ==
    IF prev_avg = 0 THEN 0
    ELSE PyRound(10000 * (total - prev_avg * count), prev_avg * count,
                 TieUp(ties, DriftKey(total, count, prev_avg)))

\* the scores of the members of group g
GroupScores(frame, g) ==
    LET members == SelectSeq(frame, LAMBDA r : GroupKeyOf(r) = g)
    IN  [i \in DOMAIN members |-> members[i].risk_score[1]]

\* prev_lookup.get((county_id, state_id), 0.0) for group g
GroupPrev(g, lookup) == LookupGet(lookup, <<OrUnknown(g[1]), OrUnknown(g[2])>>)

\* the roundings of lines 244 and 256 that fall on an exact tie
TieKeys(frame, lookup) ==
    UNION { LET scores == GroupScores(frame, g)
                total == SumSeq(scores)
                count == Len(scores)
                prev_avg == GroupPrev(g, lookup)
            IN  (IF IsTie(total, count) THEN {AvgKey(total, count)} ELSE {})
                \cup
                (IF prev_avg # 0 /\ IsTie(10000 * (total - prev_avg * count),
                                          prev_avg * count)
                 THEN {DriftKey(total, count, prev_avg)} ELSE {})
            : g \in GroupKeys(frame) }

SnapshotRow(frame, g, lookup, today, rid, ties) ==
    LET scores == GroupScores(frame, g)
        county_id == OrUnknown(g[1])
        state_id == OrUnknown(g[2])
        total == SumSeq(scores)
        count == Len(scores)
        prev_avg == GroupPrev(g, lookup)
        drift == Drift(total, count, prev_avg, ties)
    IN  [snapshot_date |-> today,
         organization_id |-> g[3],
         county_id |-> county_id,
         state_id |-> state_id,
         profile_count |-> count,
         avg_risk_score |-> PyRound(total, count, TieUp(ties, AvgKey(total, count))),
         max_risk_score |-> SeqMax(scores),
         min_risk_score |-> SeqMin(scores),
         risk_growth_pct |-> drift,
         drift_value |-> drift,
         drift_status |-> classify_drift(drift),
         pipeline_run_id |-> rid]

\* the identifiers of the inputs in Python's string order; groupby puts a
\* nan key after every string
IdOrder == <<"", UNKNOWN, "c1", "o1", "o2", "s1", NAN>>

Rank(x) == CHOOSE i \in DOMAIN IdOrder : IdOrder[i] = x

\* group key a sorts before group key b: by county_id, state_id, then
\* organization_id, the order of the by= list
KeyBefore(a, b) ==
    \/ Rank(a[1]) < Rank(b[1])
    \/ Rank(a[1]) = Rank(b[1]) /\ Rank(a[2]) < Rank(b[2])
    \/ Rank(a[1]) = Rank(b[1]) /\ Rank(a[2]) = Rank(b[2]) /\ Rank(a[3]) < Rank(b[3])

\* the groups in the order groupby (sort=True) leaves them
RECURSIVE SortedGroups(_)
SortedGroups(S) ==
    IF S = {} THEN <<>>
    ELSE LET x == CHOOSE y \in S : \A z \in S \ {y} : KeyBefore(y, z)
         IN  <<x>> \o SortedGroups(S \ {x})

SnapshotRows(frame, prev, today, rid, ties) ==
    LET lookup == PrevLookup(prev)
        groups == SortedGroups(GroupKeys(frame))
    IN  [i \in DOMAIN groups |->
            SnapshotRow(frame, groups[i], lookup, today, rid, ties)]

----------------------------------------------------------------------------
(* the stores *)

\* on_conflict="snapshot_date,county_id,state_id,organization_id"
NaturalKey(r) == <<r.snapshot_date, r.county_id, r.state_id, r.organization_id>>

\* a plain insert: the row is added whatever the table holds
UpsertRowInsert(table, row) == Append(table, row)

\* POST with Prefer: resolution=merge-duplicates, one row: the stored row with
\* the same conflict key is replaced, otherwise the row is added
UpsertRow(table, row) ==
    IF \E i \in DOMAIN table : NaturalKey(table[i]) = NaturalKey(row)
    THEN [i \in DOMAIN table |->
             IF NaturalKey(table[i]) = NaturalKey(row) THEN row ELSE table[i]]
    ELSE Append(table, row)

RECURSIVE Upsert(_, _)
Upsert(table, rows) ==
    IF rows = <<>> THEN table
    ELSE Upsert(UpsertRow(table, Head(rows)), Tail(rows))

\* upsert("vulnerability_profiles", risk_updates, on_conflict="id"): only
\* the risk_score column of the row with the same id is replaced
WriteBack(table, frame) ==
    [i \in DOMAIN table |->
        IF \E j \in DOMAIN frame : frame[j].id = table[i].id
        THEN [table[i] EXCEPT !.risk_score =
                 (CHOOSE u \in {frame[j] : j \in DOMAIN frame} : u.id = table[i].id).risk_score]
        ELSE table[i]]

\* the row log_stage inserts
AuditRecord(rid, stage, status, processed, error) ==
    [run_id |-> rid, stage |-> stage, status |-> status,
     processed_records |-> processed, error_message |-> error]

\* str(exc) of the exception a call raised
ErrorOf(call) == "error: " \o call

AuditCall(stage, status) == "insert model_audit_log " \o stage \o " " \o status

\* a handler that lets the error of its own audit insert replace the first
HandlerMessageAuditError(original, audit_ok, audit_error) ==
    IF audit_ok THEN original ELSE audit_error

\* what the handler prints after "Pipeline failed: "
HandlerMessage(original, audit_ok, audit_error) == original

\* a handler that returns 0 once the failure is logged or lost
HandlerExitZero(audit_ok) == Some(0)

\* what run() returns from the handler
HandlerExit(audit_ok) == Some(1)

Today == "today"

----------------------------------------------------------------------------
(* inputs *)

Entity(org, county, state, size, insulin, oxygen, access) ==
    [organization_id |-> org, county_id |-> county, state_id |-> state,
     household_size |-> size,
     medication_dependency |-> None,
     insulin_dependency |-> insulin,
     oxygen_powered_device |-> oxygen,
     mobility_limitation |-> Some(FALSE),
     transportation_access |-> access,
     financial_strain |-> None,
     risk_score |-> None]

Palette ==
    << Entity("o1", "c1", "s1", Some(2), Some(TRUE), Some(FALSE), Some(TRUE)),
       Entity("o2", "c1", "s1", None, None, Some(FALSE), Some(FALSE)),
       Entity("o1", "c1", "s1", Some(0), Some(FALSE), Some(FALSE), Some(TRUE)),
       Entity("o1", NULL, NULL, Some(9), None, None, None),
       Entity(NULL, "", "", Some(0), Some(FALSE), Some(TRUE), Some(TRUE)) >>

\* one arrangement of every choice of n different profiles
Arrangements(n) ==
    {g \in [1..n -> DOMAIN Palette] : \A i, j \in 1..n : i < j => g[i] < g[j]}

\* the tables the record store can hold: up to MaxN profiles, ids 1..n
Populations ==
    UNION { { [i \in 1..n |-> [id |-> i] @@ Palette[g[i]]] : g \in Arrangements(n) }
            : n \in 0..MaxN }

PrevRow(county, state, avg) ==
    [county_id |-> county, state_id |-> state, avg_risk_score |-> avg]

\* what the select of the rows dated 30 days back can return
PrevChoices ==
    { <<>>,
      <<PrevRow("c1", "s1", Some(0)), PrevRow("c1", "s1", Some(20480)),
        PrevRow(UNKNOWN, "s1", Some(25000)), PrevRow(NULL, NULL, Some(30000))>>,
      <<PrevRow("c1", "s1", None), PrevRow(UNKNOWN, UNKNOWN, Some(25000))>>,
      <<PrevRow("c1", "s1", Some(-30000)), PrevRow(UNKNOWN, UNKNOWN, Some(0))>> }

----------------------------------------------------------------------------
(* run() *)

Init ==
    /\ profiles \in Populations
    \* the two builds differ only on a transportation_access column with a null
    /\ fillna_downcasts \in
          IF ObjectDtype([i \in DOMAIN profiles |-> profiles[i].transportation_access])
          THEN BOOLEAN ELSE {TRUE}
    /\ float_ties = {}
    /\ prev_store \in PrevChoices
    /\ region_snapshots = <<>>
    /\ model_audit_log = <<>>
    /\ runs = 0
    /\ faults = 0
    /\ pc = "idle"
    /\ run_id = 0
    /\ df = <<>>
    /\ k = 0
    /\ snapshot_rows = <<>>
    /\ err = ""
    /\ exit_code = None
    /\ stderr = ""
    /\ trace = <<>>
    /\ first_pass = None

stores == <<fillna_downcasts, float_ties, profiles, prev_store, region_snapshots,
            model_audit_log, first_pass>>

\* how a call of SupabaseClient ends: it returns; it raises with nothing
\* changed at the endpoint (the request fails, or raise_for_status does); or
\* the endpoint applies the request and resp.json() raises on the reply
ReadOutcomes == {"returned", "raised"}
WriteOutcomes == {"returned", "raised", "applied_raised"}

\* the endpoint has applied the write
Applied(outcome) == outcome # "raised"

\* a call of the try block may raise while the behaviour's fault budget
\* lasts; the handler's own insert may raise in every aborted invocation
MayFail(outcome) == outcome = "returned" \/ faults < MaxFaults

Attempt(call, outcome) ==
    /\ MayFail(outcome)
    /\ trace' = Append(trace, [call |-> call, outcome |-> outcome])
    /\ faults' = IF outcome = "returned" THEN faults ELSE faults + 1

\* an exception reaches the except clause
Raise(message) ==
    /\ err' = message
    /\ pc' = "handler"

\* lines 126-136: a new invocation with its configuration present
StartRun ==
    /\ pc \in {"idle", "done"}
    /\ runs < MaxRuns
    /\ runs' = runs + 1
    /\ run_id' = runs + 1
    /\ pc' = "select_profiles"
    /\ df' = <<>>
    /\ k' = 0
    /\ snapshot_rows' = <<>>
    /\ err' = ""
    /\ exit_code' = None
    /\ stderr' = ""
    /\ trace' = <<>>
    /\ UNCHANGED <<stores, faults>>

\* lines 130-132: SUPABASE_URL or SUPABASE_SERVICE_ROLE_KEY is missing
MissingConfig ==
    /\ pc \in {"idle", "done"}
    /\ runs' = runs
    /\ run_id' = 0
    /\ pc' = "done"
    /\ df' = <<>>
    /\ k' = 0
    /\ snapshot_rows' = <<>>
    /\ err' = ""
    /\ exit_code' = Some(1)
    /\ stderr' = "Missing SUPABASE_URL or SUPABASE_SERVICE_ROLE_KEY"
    /\ trace' = <<>>
    /\ UNCHANGED <<stores, faults>>

\* a run() without the empty-population return
AfterSelectNoEmptyCheck(records) == "upsert_risk"

\* lines 177-181: "if not records" returns after one audit row
AfterSelect(records) == IF records = <<>> THEN "log_empty" ELSE "upsert_risk"

\* lines 172-185
SelectProfiles ==
    /\ pc = "select_profiles"
    /\ \E outcome \in ReadOutcomes :
        /\ Attempt("select vulnerability_profiles", outcome)
        /\ IF outcome = "returned"
           THEN LET risk == calculate_risk(profiles, fillna_downcasts)
                IN  /\ df' = [i \in DOMAIN profiles |->
                                 [profiles[i] EXCEPT !.risk_score = Some(risk[i])]]
                    /\ pc' = AfterSelect(profiles)
                    /\ err' = err
           ELSE Raise(ErrorOf("select vulnerability_profiles")) /\ df' = df
    /\ UNCHANGED <<stores, runs, run_id, k, snapshot_rows, exit_code, stderr>>

\* log_stage followed by a return or by the next statement
LogStage(at, stage, processed, next, result) ==
    /\ pc = at
    /\ \E outcome \in WriteOutcomes :
        /\ Attempt(AuditCall(stage, "SUCCESS"), outcome)
        /\ model_audit_log' =
              IF Applied(outcome)
              THEN Append(model_audit_log,
                          AuditRecord(run_id, stage, "SUCCESS", processed, ""))
              ELSE model_audit_log
        /\ IF outcome = "returned"
           THEN /\ pc' = next
                /\ exit_code' = result
                /\ err' = err
           ELSE /\ Raise(ErrorOf(AuditCall(stage, "SUCCESS")))
                /\ exit_code' = exit_code

\* lines 177-179
LogEmpty ==
    /\ LogStage("log_empty", "pipeline", 0, "done", Some(0))
    /\ UNCHANGED <<fillna_downcasts, float_ties, profiles, prev_store, region_snapshots,
                   first_pass, runs, run_id, df, k, snapshot_rows, stderr>>

\* line 186
UpsertRisk ==
    /\ pc = "upsert_risk"
    /\ \E outcome \in WriteOutcomes :
        /\ Attempt("upsert vulnerability_profiles", outcome)
        /\ profiles' = IF Applied(outcome) THEN WriteBack(profiles, df)
                       ELSE profiles
        /\ IF outcome = "returned"
           THEN pc' = "log_risk" /\ err' = err
           ELSE Raise(ErrorOf("upsert vulnerability_profiles"))
    /\ UNCHANGED <<fillna_downcasts, float_ties, prev_store, region_snapshots,
                   model_audit_log, first_pass, runs, run_id, df, k,
                   snapshot_rows, exit_code, stderr>>

\* line 187
LogRisk ==
    /\ LogStage("log_risk", "risk_score", Len(df), "kmeans", None)
    /\ UNCHANGED <<fillna_downcasts, float_ties, profiles, prev_store, region_snapshots,
                   first_pass, runs, run_id, df, k, snapshot_rows, stderr>>

\* lines 190-195
KMeansFit ==
    /\ pc = "kmeans"
    /\ k' = KClusters(Len(df))
    /\ IF KMeansFits(Len(df), KClusters(Len(df)))
       THEN pc' = "log_kmeans" /\ err' = err
       ELSE Raise("ValueError: n_samples should be >= n_clusters")
    /\ UNCHANGED <<stores, runs, faults, run_id, df, snapshot_rows, exit_code,
                   stderr, trace>>

\* line 196
LogKMeans ==
    /\ LogStage("log_kmeans", "kmeans", Len(df), "log_dbscan", None)
    /\ UNCHANGED <<fillna_downcasts, float_ties, profiles, prev_store, region_snapshots,
                   first_pass, runs, run_id, df, k, snapshot_rows, stderr>>

\* lines 198-205
LogDbscan ==
    /\ LogStage("log_dbscan", "dbscan", Len(df), "log_isolation_forest", None)
    /\ UNCHANGED <<fillna_downcasts, float_ties, profiles, prev_store, region_snapshots,
                   first_pass, runs, run_id, df, k, snapshot_rows, stderr>>

\* lines 207-209
LogIsolationForest ==
    /\ LogStage("log_isolation_forest", "isolation_forest", Len(df), "select_prev", None)
    /\ UNCHANGED <<fillna_downcasts, float_ties, profiles, prev_store, region_snapshots,
                   first_pass, runs, run_id, df, k, snapshot_rows, stderr>>

\* lines 212-272
SelectPrev ==
    /\ pc = "select_prev"
    /\ \E outcome \in ReadOutcomes :
        /\ Attempt("select region_snapshots", outcome)
        /\ IF outcome = "returned"
           THEN /\ \E ties \in Decisions(float_ties,
                                          TieKeys(df, PrevLookup(prev_store))) :
                      /\ float_ties' = ties
                      /\ snapshot_rows' =
                            SnapshotRows(df, prev_store, Today, run_id, ties)
                /\ pc' = "upsert_snapshots"
                /\ err' = err
           ELSE /\ Raise(ErrorOf("select region_snapshots"))
                /\ UNCHANGED <<snapshot_rows, float_ties>>
    /\ UNCHANGED <<fillna_downcasts, profiles, prev_store, region_snapshots,
                   model_audit_log, first_pass, runs, run_id, df, k,
                   exit_code, stderr>>

\* lines 274-278
UpsertSnapshots ==
    /\ pc = "upsert_snapshots"
    /\ \E outcome \in WriteOutcomes :
        /\ Attempt("upsert region_snapshots", outcome)
        /\ region_snapshots' =
              IF Applied(outcome) THEN Upsert(region_snapshots, snapshot_rows)
              ELSE region_snapshots
        /\ IF outcome = "returned"
           THEN pc' = "log_drift" /\ err' = err
           ELSE Raise(ErrorOf("upsert region_snapshots"))
    /\ UNCHANGED <<fillna_downcasts, float_ties, profiles, prev_store, model_audit_log,
                   first_pass, runs, run_id, df, k, snapshot_rows, exit_code,
                   stderr>>

\* line 279
LogDrift ==
    /\ LogStage("log_drift", "drift", Len(snapshot_rows), "log_pipeline", None)
    /\ UNCHANGED <<fillna_downcasts, float_ties, profiles, prev_store, region_snapshots,
                   first_pass, runs, run_id, df, k, snapshot_rows, stderr>>

\* lines 281-283
LogPipeline ==
    /\ LogStage("log_pipeline", "pipeline", Len(df), "done", Some(0))
    /\ first_pass' = IF pc' = "done" /\ IsNone(first_pass)
                     THEN Some([run_id |-> run_id, rows |-> region_snapshots])
                     ELSE first_pass
    /\ UNCHANGED <<fillna_downcasts, float_ties, profiles, prev_store, region_snapshots,
                   runs, run_id, df, k, snapshot_rows, stderr>>

\* lines 285-292
Handler ==
    /\ pc = "handler"
    /\ \E outcome \in WriteOutcomes :
        /\ trace' = Append(trace, [call |-> AuditCall("pipeline", "FAILED"),
                                   outcome |-> outcome])
        /\ faults' = faults
        /\ model_audit_log' =
              IF Applied(outcome)
              THEN Append(model_audit_log,
                          AuditRecord(run_id, "pipeline", "FAILED", 0, err))
              ELSE model_audit_log
        /\ stderr' = HandlerMessage(err, outcome = "returned",
                                    ErrorOf(AuditCall("pipeline", "FAILED")))
        /\ exit_code' = HandlerExit(outcome = "returned")
    /\ pc' = "done"
    /\ UNCHANGED <<fillna_downcasts, float_ties, profiles, prev_store, region_snapshots,
                   first_pass, runs, run_id, df, k, snapshot_rows, err>>

Next ==
    \/ StartRun
    \/ MissingConfig
    \/ SelectProfiles
    \/ LogEmpty
    \/ UpsertRisk
    \/ LogRisk
    \/ KMeansFit
    \/ LogKMeans
    \/ LogDbscan
    \/ LogIsolationForest
    \/ SelectPrev
    \/ UpsertSnapshots
    \/ LogDrift
    \/ LogPipeline
    \/ Handler

Spec == Init /\ [][Next]_vars

----------------------------------------------------------------------------
(* the k formula on its own: run() at line 193 with n scored entities *)

ScoredFrame(n) ==
    LET e == Entity("o1", "c1", "s1", Some(2), Some(TRUE), Some(FALSE), Some(TRUE))
    IN  [i \in 1..n |-> [[id |-> i] @@ e EXCEPT !.risk_score = Some(30000)]]

InitK ==
    /\ fillna_downcasts = TRUE
    /\ float_ties = {}
    /\ \E n \in 1..MaxPop :
        /\ profiles = ScoredFrame(n)
        /\ df = ScoredFrame(n)
        /\ model_audit_log = <<AuditRecord(1, "risk_score", "SUCCESS", n, "")>>
    /\ prev_store = <<>>
    /\ region_snapshots = <<>>
    /\ runs = 1
    /\ faults = 0
    /\ pc = "kmeans"
    /\ run_id = 1
    /\ k = 0
    /\ snapshot_rows = <<>>
    /\ err = ""
    /\ exit_code = None
    /\ stderr = ""
    /\ trace = << [call |-> "select vulnerability_profiles", outcome |-> "returned"],
                  [call |-> "upsert vulnerability_profiles", outcome |-> "returned"],
                  [call |-> AuditCall("risk_score", "SUCCESS"), outcome |-> "returned"] >>
    /\ first_pass = None

NextK == KMeansFit

SpecK == InitK /\ [][NextK]_vars

----------------------------------------------------------------------------
(* calculate_risk on its own: one entity of any attributes in a batch of two *)

Tri == {None, Some(TRUE), Some(FALSE)}

Sizes == {None} \cup {Some(h) : h \in -1..MaxHousehold}

Attributes ==
    [organization_id : {"o1"}, county_id : {"c1"}, state_id : {"s1"},
     household_size : Sizes,
     medication_dependency : Tri, insulin_dependency : Tri,
     oxygen_powered_device : Tri, mobility_limitation : Tri,
     transportation_access : Tri, financial_strain : Tri,
     risk_score : {None}]

InitRisk ==
    /\ fillna_downcasts \in BOOLEAN
    /\ float_ties = {}
    /\ \E e \in Attributes, access \in Tri :
        profiles = << [id |-> 1] @@ e,
                      [id |-> 2] @@ Entity("o1", "c1", "s1", None, None, None, access) >>
    /\ prev_store = <<>>
    /\ region_snapshots = <<>>
    /\ model_audit_log = <<>>
    /\ runs = 1
    /\ faults = 0
    /\ pc = "select_profiles"
    /\ run_id = 1
    /\ df = <<>>
    /\ k = 0
    /\ snapshot_rows = <<>>
    /\ err = ""
    /\ exit_code = None
    /\ stderr = ""
    /\ trace = <<>>
    /\ first_pass = None

NextRisk == SelectProfiles

SpecRisk == InitRisk /\ [][NextRisk]_vars

----------------------------------------------------------------------------
(* vocabulary of the properties *)

FailedInsert == AuditCall("pipeline", "FAILED")

Attempts(call) == Cardinality({i \in DOMAIN trace : trace[i].call = call})

\* the call returned to run()
Succeeded(call) ==
    \E i \in DOMAIN trace : trace[i].call = call /\ trace[i].outcome = "returned"

\* the endpoint applied the call, whether or not it returned
Landed(call) ==
    \E i \in DOMAIN trace : trace[i].call = call /\ Applied(trace[i].outcome)

Failed(t) == t.outcome # "returned"

NoCallFailed == \A i \in DOMAIN trace : ~Failed(trace[i])

\* the audit rows of the current invocation, in insertion order
RunAudit == SelectSeq(model_audit_log, LAMBDA r : r.run_id = run_id)

Returned == pc = "done"

\* the invocation loaded a non-empty population
Loaded == df # <<>>

WritesDone == /\ Landed("upsert vulnerability_profiles")
              /\ Landed("upsert region_snapshots")

----------------------------------------------------------------------------
(* C1 *)

\* C1: once an external call made after the configuration check raises, the
\* only further call of the run is one insert of the FAILED audit row; the
\* row, when the endpoint applies it, carries the message of the failed call;
\* the run returns 1 and prints that message, also when the FAILED insert
\* itself raises.
C1_FailureAborts ==
    \A i \in DOMAIN trace :
        (Failed(trace[i]) /\ trace[i].call # FailedInsert) =>
            /\ pc \in {"handler", "done"}
            /\ err = ErrorOf(trace[i].call)
            /\ Len(trace) <= i + 1
            /\ pc = "handler" => Len(trace) = i
            /\ pc = "done" =>
                /\ Len(trace) = i + 1
                /\ trace[i + 1].call = FailedInsert
                /\ exit_code = Some(1)
                /\ stderr = ErrorOf(trace[i].call)
                /\ Applied(trace[i + 1].outcome) =>
                      /\ RunAudit # <<>>
                      /\ RunAudit[Len(RunAudit)] =
                            AuditRecord(run_id, "pipeline", "FAILED", 0,
                                        ErrorOf(trace[i].call))
                /\ ~Applied(trace[i + 1].outcome) =>
                      \A j \in DOMAIN RunAudit : RunAudit[j].status # "FAILED"

\* a data write raised, then the FAILED insert raised too, and the run returned
C1_Witness ==
    /\ Returned
    /\ Len(trace) = 3
    /\ trace[2].call = "upsert vulnerability_profiles"
    /\ Failed(trace[2])
    /\ trace[3].call = FailedInsert
    /\ Failed(trace[3])

----------------------------------------------------------------------------
(* C2 *)

HasFailedRecord == \E j \in DOMAIN RunAudit : RunAudit[j].status = "FAILED"

\* C2 as stated: a returned run over a non-empty population either wrote
\* all scores and all snapshots and returned 0, or has a FAILED audit row
\* and returned non-zero.
C2_NoPartialSuccess_Original ==
    (Returned /\ Loaded) =>
        \/ WritesDone /\ exit_code = Some(0)
        \/ HasFailedRecord /\ exit_code = Some(1)

\* C2 amended: a returned run over a non-empty population either wrote all
\* scores and all snapshots and returned 0, or returned 1 after exactly one
\* attempt to insert the FAILED audit row, which is in the log exactly when
\* the endpoint applied that insert; it never returns 0 with a write skipped.
C2_NoPartialSuccess ==
    (Returned /\ Loaded) =>
        /\ \/ WritesDone /\ exit_code = Some(0) /\ ~HasFailedRecord
           \/ /\ exit_code = Some(1)
              /\ Attempts(FailedInsert) = 1
              /\ HasFailedRecord <=> Landed(FailedInsert)
        /\ exit_code = Some(0) => WritesDone

\* the snapshot upsert was skipped and the FAILED insert was lost
C2_Witness ==
    /\ Returned
    /\ Loaded
    /\ Landed("upsert vulnerability_profiles")
    /\ ~Landed("upsert region_snapshots")
    /\ Attempts(FailedInsert) = 1
    /\ ~Landed(FailedInsert)
    /\ exit_code = Some(1)

----------------------------------------------------------------------------
(* C3 *)

EmptySelect ==
    /\ trace # <<>>
    /\ trace[1].call = "select vulnerability_profiles"
    /\ trace[1].outcome = "returned"
    /\ profiles = <<>>

NoDataCalls ==
    /\ Attempts("upsert vulnerability_profiles") = 0
    /\ Attempts("select region_snapshots") = 0
    /\ Attempts("upsert region_snapshots") = 0
    /\ snapshot_rows = <<>>

\* C3 as stated: a run whose population select returned no record returns 0,
\* makes no score write-back and no snapshot read or upsert, and inserts
\* exactly one audit row, SUCCESS with processed_records 0.
C3_EmptyPopulation_Original ==
    (Returned /\ EmptySelect) =>
        /\ exit_code = Some(0)
        /\ NoDataCalls
        /\ RunAudit = <<AuditRecord(run_id, "pipeline", "SUCCESS", 0, "")>>

\* C3 amended: a run whose population select returned no record makes no
\* score write-back and no snapshot read or upsert; when its audit insert
\* returns, the run returns 0 and that SUCCESS row with processed_records 0
\* is its only audit row; when the insert raises, the run returns 1 after
\* one attempt to insert the FAILED row, and its audit rows are the SUCCESS
\* row if the endpoint applied it, then the FAILED row if the endpoint
\* applied that.
C3_EmptyPopulation ==
    (Returned /\ EmptySelect) =>
        /\ NoDataCalls
        /\ Attempts(AuditCall("pipeline", "SUCCESS")) = 1
        /\ Succeeded(AuditCall("pipeline", "SUCCESS")) =>
              /\ exit_code = Some(0)
              /\ RunAudit = <<AuditRecord(run_id, "pipeline", "SUCCESS", 0, "")>>
        /\ ~Succeeded(AuditCall("pipeline", "SUCCESS")) =>
              /\ exit_code = Some(1)
              /\ Attempts(FailedInsert) = 1
              /\ RunAudit =
                    (IF Landed(AuditCall("pipeline", "SUCCESS"))
                     THEN <<AuditRecord(run_id, "pipeline", "SUCCESS", 0, "")>>
                     ELSE <<>>)
                    \o
                    (IF Landed(FailedInsert)
                     THEN <<AuditRecord(run_id, "pipeline", "FAILED", 0,
                                        ErrorOf(AuditCall("pipeline", "SUCCESS")))>>
                     ELSE <<>>)

\* an empty population was logged and the run returned 0
C3_Witness ==
    /\ Returned
    /\ EmptySelect
    /\ exit_code = Some(0)
    /\ Len(RunAudit) = 1

----------------------------------------------------------------------------
(* C4 *)

KRequested == pc # "kmeans" /\ k # 0

\* C4 as stated: k = clamp(round(sqrt(n)), 2, 6).
C4_KFormula_Original ==
    KRequested => k = Max(2, Min(6, RoundSqrt(Len(df))))

\* C4 amended: k = clamp(floor(sqrt(n)), 2, 6): k lies in 2..6, k is 2 or
\* k*k <= n, and k is 6 or (k+1)*(k+1) > n.
C4_KFormula ==
    KRequested =>
        /\ k \in 2..6
        /\ k = 2 \/ k * k <= Len(df)
        /\ k = 6 \/ (k + 1) * (k + 1) > Len(df)

\* seven entities: the square root rounds to 3 and truncates to 2
C4_Witness == KRequested /\ Len(df) = 7 /\ k = 2

----------------------------------------------------------------------------
(* C5 *)

UniqueKeys ==
    \A i, j \in DOMAIN region_snapshots :
        NaturalKey(region_snapshots[i]) = NaturalKey(region_snapshots[j]) => i = j

\* a complete run has returned after an earlier complete run
RerunComplete ==
    /\ Returned
    /\ Loaded
    /\ exit_code = Some(0)
    /\ ~IsNone(first_pass)
    /\ first_pass[1].run_id # run_id

Rows(table) == {table[i] : i \in DOMAIN table}

SameButRunId(a, b) ==
    [a EXCEPT !.pipeline_run_id = 0] = [b EXCEPT !.pipeline_run_id = 0]

\* C5 as stated: no two stored snapshot rows share a natural key, and after
\* a second complete run of the same date over the same population and the
\* same prior snapshots every stored row is identical to what the first
\* complete run left.
C5_Idempotent_Original ==
    /\ UniqueKeys
    /\ RerunComplete => Rows(region_snapshots) = Rows(first_pass[1].rows)

\* C5 amended: no two stored snapshot rows share a natural key, and after a
\* second complete run of the same date over the same population and the
\* same prior snapshots the store holds the same keys, each row identical to
\* what the first complete run left in every field but pipeline_run_id,
\* which is the run id of the later run.
C5_Idempotent ==
    /\ UniqueKeys
    /\ RerunComplete =>
        /\ Len(region_snapshots) = Len(first_pass[1].rows)
        /\ \A r \in Rows(region_snapshots) :
              /\ r.pipeline_run_id = run_id
              /\ \E r0 \in Rows(first_pass[1].rows) : SameButRunId(r, r0)
        /\ \A r0 \in Rows(first_pass[1].rows) :
              \E r \in Rows(region_snapshots) : SameButRunId(r, r0)

\* two complete runs over a population of two groups
C5_Witness ==
    /\ RerunComplete
    /\ Len(region_snapshots) >= 2
    /\ Len(first_pass[1].rows) >= 2

----------------------------------------------------------------------------
(* C6 *)

\* the value a snapshot row carries for a county or state of the population
Carried(x) == IF x = NULL THEN NAN ELSE IF x = "" THEN UNKNOWN ELSE x

CarriedOrg(x) == IF x = NULL THEN NAN ELSE x

ScoresOf(row) ==
    LET ms == SelectSeq(df, LAMBDA e :
                  /\ Carried(e.county_id) = row.county_id
                  /\ Carried(e.state_id) = row.state_id
                  /\ CarriedOrg(e.organization_id) = row.organization_id)
    IN  [i \in DOMAIN ms |-> ms[i].risk_score[1]]

PriorMatches(row) ==
    {j \in DOMAIN prev_store : /\ prev_store[j].county_id = row.county_id
                               /\ prev_store[j].state_id = row.state_id}

\* C6: a row's drift_value is 0 when no prior row has its (county_id,
\* state_id) or the matched prior average is 0 (or null); otherwise it is
\* (avg_risk - prev_avg) / prev_avg rounded to 4 decimals, where the matched
\* row is the last one returned for the pair, whatever its organization.
C6_Drift ==
    \A i \in DOMAIN snapshot_rows :
        LET row == snapshot_rows[i]
            matches == PriorMatches(row)
            scores == ScoresOf(row)
            total == SumSeq(scores)
            count == Len(scores)
        IN  /\ count = row.profile_count
            /\ IF matches = {}
               THEN row.drift_value = 0
               ELSE LET j == CHOOSE m \in matches : \A n \in matches : n <= m
                        p == fillna(prev_store[j].avg_risk_score, 0)
                    IN  IF p = 0
                        THEN row.drift_value = 0
                        ELSE 2 * Abs(10000 * (total - p * count)
                                     - row.drift_value * p * count) <= Abs(p * count)

\* two groups of one county and state, of different organizations, both
\* measured against the same prior average
C6_Witness ==
    \E i, j \in DOMAIN snapshot_rows :
        /\ snapshot_rows[i].county_id = snapshot_rows[j].county_id
        /\ snapshot_rows[i].state_id = snapshot_rows[j].state_id
        /\ snapshot_rows[i].organization_id # snapshot_rows[j].organization_id
        /\ snapshot_rows[i].drift_value > 0
        /\ snapshot_rows[j].drift_value < 0

----------------------------------------------------------------------------
(* C7 *)

ExpectedHousehold(r) ==
    LET size == IF IsNone(r.household_size) THEN 1 ELSE r.household_size[1]
    IN  Min(Max(size, 1) * 4000, 32000)

IsTrue(x) == x = Some(TRUE)

ExpectedRisk(r) ==
    ExpectedHousehold(r)
    + (IF IsTrue(r.medication_dependency) THEN 18000 ELSE 0)
    + (IF IsTrue(r.insulin_dependency) THEN 22000 ELSE 0)
    + (IF IsTrue(r.oxygen_powered_device) THEN 25000 ELSE 0)
    + (IF IsTrue(r.mobility_limitation) THEN 15000 ELSE 0)
    + (IF IsTrue(r.financial_strain) THEN 14000 ELSE 0)
    + (IF r.transportation_access = Some(FALSE) THEN 12000 ELSE 0)

\* C7: every scored entity's risk score is min(max(household_size, 1) * 0.4,
\* 3.2) plus the weights of its own true factors plus 1.2 when its
\* transportation access is false, and is never negative.
C7_RiskScore ==
    pc = "upsert_risk" =>
        \A i \in DOMAIN df :
            /\ df[i].risk_score = Some(ExpectedRisk(df[i]))
            /\ df[i].risk_score[1] >= 0

----------------------------------------------------------------------------
(* C8 *)

Placeholder(x) == IF x = NULL THEN UNKNOWN ELSE x

\* C8: every entity with a null county_id or state_id is counted in a
\* snapshot row that has "UNKNOWN" in that field, the entity's other region
\* field and the entity's organization_id, never a placeholder for the
\* organization.
C8_UnknownPlaceholder ==
    snapshot_rows # <<>> =>
        /\ \A m \in DOMAIN df :
              (df[m].county_id # "" /\ df[m].state_id # "") =>
                  \E i \in DOMAIN snapshot_rows :
                      /\ snapshot_rows[i].county_id = Placeholder(df[m].county_id)
                      /\ snapshot_rows[i].state_id = Placeholder(df[m].state_id)
                      /\ snapshot_rows[i].organization_id
                            = CarriedOrg(df[m].organization_id)
        /\ \A i \in DOMAIN snapshot_rows :
              snapshot_rows[i].organization_id # UNKNOWN

----------------------------------------------------------------------------
(* C9 *)

StageOrder == <<"risk_score", "kmeans", "dbscan", "isolation_forest", "drift",
                "pipeline">>

CallOrder ==
    << "select vulnerability_profiles",
       "upsert vulnerability_profiles",
       AuditCall("risk_score", "SUCCESS"),
       AuditCall("kmeans", "SUCCESS"),
       AuditCall("dbscan", "SUCCESS"),
       AuditCall("isolation_forest", "SUCCESS"),
       "select region_snapshots",
       "upsert region_snapshots",
       AuditCall("drift", "SUCCESS"),
       AuditCall("pipeline", "SUCCESS") >>

SuccessTrail ==
    (Returned /\ Loaded /\ NoCallFailed) =>
        /\ Len(RunAudit) = Len(StageOrder)
        /\ \A i \in DOMAIN RunAudit :
              /\ RunAudit[i].stage = StageOrder[i]
              /\ RunAudit[i].status = "SUCCESS"
        /\ [i \in DOMAIN trace |-> trace[i].call] = CallOrder

AppendOnly ==
    /\ Len(model_audit_log') >= Len(model_audit_log)
    /\ SubSeq(model_audit_log', 1, Len(model_audit_log)) = model_audit_log

\* C9: a returned run over a non-empty population with no failed call has
\* exactly the six SUCCESS rows risk_score, kmeans, dbscan,
\* isolation_forest, drift, pipeline under its run id, each inserted after
\* its stage's write and before the next stage's call; audit rows are only
\* ever appended.
C9_AuditTrail == []SuccessTrail /\ [][AppendOnly]_vars

----------------------------------------------------------------------------
(* C10 *)

\* C10: the k handed to KMeans never exceeds the number of entities, and a
\* returned run over a non-empty population with no failed call ends with
\* the pipeline SUCCESS row and returns 0.
C10_KWithinPopulation ==
    /\ KRequested => k <= Len(df)
    /\ (Returned /\ Loaded /\ NoCallFailed) =>
          /\ exit_code = Some(0)
          /\ RunAudit # <<>>
          /\ RunAudit[Len(RunAudit)].stage = "pipeline"
          /\ RunAudit[Len(RunAudit)].status = "SUCCESS"

====
